---- MODULE Spec2Model ----
(***************************************************************************)
(* Identity and credential layer of the pangolin CLI (fosrl/cli).          *)
(*                                                                         *)
(* The persisted account store (accounts.json), the commands that mutate   *)
(* it (login, logout, select account, select org, AccountStore.Deactivate, *)
(* up), the device authorization flow of login (loginWithWeb) and the      *)
(* tunnel credential check of up (EnsureOlmCredentials).                   *)
(*                                                                         *)
(* Commands are separate CLI invocations run one after the other by one    *)
(* operator; the store variables hold the content of accounts.json, which  *)
(* every command loads at start-up and writes with AccountStore.Save.      *)
(* Time is counted in seconds since the device code was issued.            *)
(***************************************************************************)
EXTENDS Integers, Sequences, FiniteSets, TLC

\* ---------------------------------------------------------------- bounds
\* user ids the server can report
Users == {"u1", "u2"}
\* the user ids a store can hold: those that log in here and one more
LogoutUsers == Users \cup {"u3"}
\* session tokens the server can issue on verification
Tokens == {"T1", "T2"}
\* organization ids the server can list
Orgs == {"o1", "o2"}
\* number of tunnel (olm) credentials the server issues in one exploration
MaxOlm == 2
\* longest duration of one poll request, in seconds (the HTTP client's
\* timeout is 30 s; the model explores 0..MaxLatency)
MaxLatency == 1
\* expires_in_seconds values the server answers to "start": below the
\* ceiling (Spec), and below and above it (SpecFlow)
ExpiresShort == {2}
ExpiresLong == {2, 301}

\* ------------------------------------------------------ program constants
PollInterval == 1
MaxPollDuration == 300

\* ------------------------------------------------------------------ state
VARIABLES
    ActiveUserID,   \* AccountStore.ActiveUserID ("" = none)
    Accounts,       \* AccountStore.Accounts: user id -> Account
    pc,             \* position of the running login: idle | polling | authorized
    expiresIn,      \* startResp.ExpiresInSeconds of the running flow
    elapsed,        \* seconds since the code was issued (time.Since(startTime))
    pollCount,      \* poll requests issued by the running flow
    nPending,       \* {verified:false} responses received by the running flow
    lastResp,       \* last poll response received
    flowState,      \* state of the device authorization flow
    sessionToken,   \* token returned by loginWithWeb ("" = none)
    createCalls,    \* CreateOlm calls issued by the last login
    nextOlm,        \* server side: id of the next credential CreateOlm issues
    storeAtStart,   \* the store as the running (or last) login found it
    credAtLogout,   \* user id -> credential held when last logged out (0 = none)
    result,         \* outcome of the last command: [cmd, err, user]
    listener,       \* the press-Enter goroutine of the running (or last) login
    recoverable,    \* server side: users whose credential the live fingerprint recovers
    olmRun,         \* the last EnsureOlmCredentials call of up
    file,           \* accounts.json as LoadAccountStore and Save find it on disk
    proc,           \* the invocation that loads and saves accounts.json
    call,           \* the library call just made on its own: [fn, ..., out]
    engine,         \* the tunnel client (olm): stopped | running
    waited,         \* ms logout has slept waiting for the client to stop
    client          \* the invocation's api.Client: [base, token]

storeVars == <<ActiveUserID, Accounts>>
flowVars == <<pc, expiresIn, elapsed, pollCount, nPending, lastResp, flowState, sessionToken>>
olmVars == <<recoverable, olmRun>>
libVars == <<file, proc, call>>
waitVars == <<engine, waited>>
apiVars == <<client>>
cmdVars == <<storeVars, flowVars, createCalls, nextOlm, storeAtStart, credAtLogout,
             result, listener, olmVars>>
vars == <<ActiveUserID, Accounts, pc, expiresIn, elapsed, pollCount, nPending,
          lastResp, flowState, sessionToken, createCalls, nextOlm, storeAtStart,
          credAtLogout, result, listener, recoverable, olmRun, file, proc, call,
          engine, waited, client>>

\* ---------------------------------------------------------- account store
\* config.Account (part_026:20-30).  The user id is the key of the account in
\* the store; OlmCredentials is the id of the credential (0 = nil).  Of the
\* presentation data (Username, Name, ServerInfo) only Username is kept: the
\* three are refreshed by the same code path of select account.
Account == [SessionToken : Tokens \cup {""},
            OrgID : Orgs \cup {""},
            OlmCredentials : Nat,
            Username : {"", "name"}]

Store == [ActiveUserID |-> ActiveUserID, Accounts |-> Accounts]

NoResp == [err |-> 0, verified |-> FALSE, token |-> "", message |-> "none"]

\* accounts.json does not exist
NoFile == [kind |-> "absent"]

\* no invocation has loaded accounts.json.  phase: aborted (RootCommand
\* returned the error of LoadAccountStore) | loaded | truncated (Save has
\* opened the file) | saved | crashed (the process died in Save); saw: the
\* file as it was loaded; store: the store loaded, then the store saved
NoProc == [phase |-> "none"]

\* the api.Client before RootCommand built it
NoClient == [base |-> <<>>, token |-> ""]

\* call before any library call was made
NoCall == [fn |-> "none"]

\* olmRun before up has called EnsureOlmCredentials.  user: the account's
\* user id; before, after: account.OlmCredentials at the call and on return;
\* cache: the cached fingerprint could be read; calls: the server calls made,
\* with their answers; changed, err: the returned pair; priorVerified: the
\* call before this one, for the same user, found the credential on the
\* server, and priorChanged: it returned changed = true
NoRun == [user |-> "", before |-> 0, cache |-> FALSE, calls |-> <<>>, changed |-> FALSE,
          err |-> "", after |-> 0, priorVerified |-> FALSE, priorChanged |-> FALSE]

\* AccountStore.ActiveAccount without the session token check of
\* part_026:98-100 (the body of internal/config/accounts.go:88-99)
ActiveAccountNoTokenCheck(s) ==
    IF s.ActiveUserID = "" THEN [err |-> "not logged in", user |-> ""]
    ELSE IF s.ActiveUserID \notin DOMAIN s.Accounts
         THEN [err |-> "active account missing", user |-> ""]
    ELSE [err |-> "", user |-> s.ActiveUserID]

\* AccountStore.ActiveAccount (part_026:88-103); user names the account returned
ActiveAccount(s) ==
    IF s.ActiveUserID = "" THEN [err |-> "not logged in", user |-> ""]
    ELSE IF s.ActiveUserID \notin DOMAIN s.Accounts
         THEN [err |-> "active account missing", user |-> ""]
    ELSE IF s.Accounts[s.ActiveUserID].SessionToken = ""
         THEN [err |-> "active account missing session token", user |-> ""]
    ELSE [err |-> "", user |-> s.ActiveUserID]

\* the accounts map with key u set to account a (s.Accounts[u] = a)
Put(accts, u, a) == [x \in DOMAIN accts \cup {u} |-> IF x = u THEN a ELSE accts[x]]

\* the accounts map without key u (delete(s.Accounts, u))
Remove(accts, u) == [x \in DOMAIN accts \ {u} |-> accts[x]]

\* credAtLogout concerns logged-out users only: the entries of the users
\* that hold a session token are dropped when the next command starts
Forget(cal, accts) ==
    [u \in LogoutUsers |-> IF u \in DOMAIN accts /\ accts[u].SessionToken # "" THEN 0 ELSE cal[u]]

\* a command that is not login ends the login process state of the model
ResetFlow ==
    /\ pc' = "idle"
    /\ expiresIn' = 0
    /\ elapsed' = 0
    /\ pollCount' = 0
    /\ nPending' = 0
    /\ lastResp' = NoResp
    /\ flowState' = "none"
    /\ sessionToken' = ""
    /\ createCalls' = 0
    /\ listener' = "none"

Init ==
    /\ ActiveUserID = ""
    /\ Accounts = <<>>
    /\ pc = "idle"
    /\ expiresIn = 0
    /\ elapsed = 0
    /\ pollCount = 0
    /\ nPending = 0
    /\ lastResp = NoResp
    /\ flowState = "none"
    /\ sessionToken = ""
    /\ createCalls = 0
    /\ nextOlm = 1
    /\ storeAtStart = [ActiveUserID |-> "", Accounts |-> <<>>]
    /\ credAtLogout = [u \in LogoutUsers |-> 0]
    /\ result = [cmd |-> "none", err |-> "", user |-> ""]
    /\ listener = "none"
    /\ recoverable = {}
    /\ olmRun = NoRun
    /\ file = NoFile
    /\ proc = NoProc
    /\ call = NoCall
    /\ engine = "stopped"
    /\ waited = 0
    /\ client = NoClient

\* ------------------------------------------------- AccountStore.Deactivate
\* part_026:105-126; marks the account logged out and keeps its credential
DeactivateAccount(a) == [a EXCEPT !.SessionToken = "", !.OrgID = ""]

Deactivate(userID) ==
    /\ pc = "idle"
    /\ IF userID \notin DOMAIN Accounts
       THEN /\ result' = [cmd |-> "deactivate", err |-> "account does not exist", user |-> userID]
            /\ credAtLogout' = Forget(credAtLogout, Accounts)
            /\ UNCHANGED storeVars
       ELSE /\ Accounts' = Put(Accounts, userID, DeactivateAccount(Accounts[userID]))
            /\ ActiveUserID' = IF ActiveUserID = userID THEN "" ELSE ActiveUserID
            /\ credAtLogout' = [Forget(credAtLogout, Accounts) EXCEPT
                                  ![userID] = Accounts[userID].OlmCredentials]
            /\ result' = [cmd |-> "deactivate", err |-> "", user |-> userID]
    /\ ResetFlow
    /\ storeAtStart' = Store'
    /\ UNCHANGED <<nextOlm, olmVars, libVars, waitVars, apiVars>>

\* ------------------------------------------------------------- logoutMain
\* cmd/auth/logout/logout.go:31-125.  proceed = FALSE: the operator declines
\* to disconnect the running client; nextUserID: the key anyKey() returns
\* (Go map iteration order), "" when no account is left.
anyKey(accts) == IF DOMAIN accts = {} THEN {""} ELSE DOMAIN accts

\* logout.go:105-106 without the choice of the next active user (108-114)
LogoutStoreKeepActive(s, nextUserID) ==
    [ActiveUserID |-> s.ActiveUserID, Accounts |-> Remove(s.Accounts, s.ActiveUserID)]

\* logout.go:105-114 logging the remaining accounts out as well
LogoutStoreResetsOthers(s, nextUserID) ==
    [ActiveUserID |-> nextUserID,
     Accounts |-> [u \in DOMAIN s.Accounts \ {s.ActiveUserID} |->
                     DeactivateAccount(s.Accounts[u])]]

\* logout.go:105-114: the store logout saves
LogoutStore(s, nextUserID) ==
    [ActiveUserID |-> nextUserID, Accounts |-> Remove(s.Accounts, s.ActiveUserID)]

\* logout.go:99-103 (Client.Logout, part_029:244-251): what POST /auth/logout
\* comes to: the server accepts, answers with an error envelope, or cannot
\* be reached
LogoutAnswers == {"ok", "api error", "transport error"}

\* logout.go:100-103 treating a failed server logout as the command's error
LogoutErrorFatal(answer) == IF answer = "ok" THEN "" ELSE answer

\* logout.go:100-103: the error of apiClient.Logout() is logged at debug
\* level and dropped
LogoutError(answer) == ""

\* logout.go:85-124, from LoadAccountStore to the success message.  server:
\* the answer to POST /auth/logout; warned: "Client did not stop within
\* timeout" was printed (logout.go:79-81); slept: the time spent in the wait
logoutLocal(server, warned, slept, nextUserID) ==
    IF ActiveUserID = ""
    THEN /\ result' = [cmd |-> "logout", err |-> "", user |-> "", server |-> "not called",
                       warned |-> warned, waited |-> slept]
         /\ credAtLogout' = Forget(credAtLogout, Accounts)
         /\ UNCHANGED storeVars
    ELSE IF LogoutError(server) # ""
    THEN /\ result' = [cmd |-> "logout", err |-> LogoutError(server), user |-> ActiveUserID,
                       server |-> server, warned |-> warned, waited |-> slept]
         /\ credAtLogout' = Forget(credAtLogout, Accounts)
         /\ UNCHANGED storeVars
    ELSE /\ nextUserID \in anyKey(Remove(Accounts, ActiveUserID))
         /\ Accounts' = LogoutStore(Store, nextUserID).Accounts
         /\ ActiveUserID' = LogoutStore(Store, nextUserID).ActiveUserID
         /\ credAtLogout' = [Forget(credAtLogout, Accounts) EXCEPT ![ActiveUserID] =
                               IF ActiveUserID \in DOMAIN Accounts
                               THEN Accounts[ActiveUserID].OlmCredentials ELSE 0]
         /\ result' = [cmd |-> "logout", err |-> "", user |-> ActiveUserID,
                       server |-> server, warned |-> warned, waited |-> slept]

\* the whole command as one step, the client's shutdown left out: the server
\* accepts the logout and nothing is waited for
logoutMain(proceed, nextUserID) ==
    /\ pc = "idle"
    /\ IF ~proceed
       THEN /\ result' = [cmd |-> "logout", err |-> "logout cancelled", user |-> "",
                          server |-> "not called", warned |-> FALSE, waited |-> 0]
            /\ credAtLogout' = Forget(credAtLogout, Accounts)
            /\ UNCHANGED storeVars
       ELSE logoutLocal("ok", FALSE, 0, nextUserID)
    /\ ResetFlow
    /\ storeAtStart' = Store'
    /\ UNCHANGED <<nextOlm, olmVars, libVars, waitVars, apiVars>>

\* -------------------------------------------- logoutMain, step by step
\* logout.go:72-73
LogoutMaxWait == 10000
LogoutPollInterval == 200

\* logout.go:75 without the test of the elapsed time
WaitGoesOnUnbounded(running, slept) == running

\* logout.go:75: the condition of the wait loop
WaitGoesOn(running, slept) == running /\ slept < LogoutMaxWait

\* logout.go:31-70, up to the wait loop.  status: GetStatus fails ("error"),
\* reports another agent ("foreign") or this CLI's ("ours"); confirm: the
\* form returns yes, no, or an error ("abort"); exitOk: POST /exit succeeded
LogoutBegin(status, confirm, exitOk) ==
    /\ pc = "idle"
    /\ IF engine = "running" /\ status = "ours" /\ confirm # "yes"
       THEN /\ result' = [cmd |-> "logout", user |-> "",
                          err |-> IF confirm = "no" THEN "logout cancelled"
                                  ELSE "form error",
                          server |-> "not called", warned |-> FALSE, waited |-> 0]
            /\ storeAtStart' = Store
            /\ UNCHANGED pc
       ELSE /\ pc' = IF engine = "running" /\ status = "ours" /\ exitOk
                     THEN "stopping" ELSE "leaving"
            /\ UNCHANGED <<result, storeAtStart>>
    /\ waited' = 0
    /\ UNCHANGED <<storeVars, expiresIn, elapsed, pollCount, nPending, lastResp,
                   flowState, sessionToken, createCalls, nextOlm, credAtLogout,
                   listener, olmVars, libVars, engine, apiVars>>

\* logout.go:75-78: one turn of the wait loop
LogoutWait ==
    /\ pc = "stopping"
    /\ WaitGoesOn(engine = "running", waited)
    /\ waited' = waited + LogoutPollInterval
    /\ UNCHANGED <<cmdVars, libVars, engine, apiVars>>

\* logout.go:75-124: the loop is left, the warning printed if the client is
\* still there, and the local logout done
LogoutFinish(answer, nextUserID) ==
    /\ pc \in {"stopping", "leaving"}
    /\ pc = "stopping" => ~WaitGoesOn(engine = "running", waited)
    /\ logoutLocal(answer, pc = "stopping" /\ engine = "running", waited, nextUserID)
    /\ pc' = "idle"
    /\ storeAtStart' = Store
    /\ UNCHANGED <<expiresIn, elapsed, pollCount, nPending, lastResp, flowState,
                   sessionToken, createCalls, nextOlm, listener, olmVars, libVars,
                   waitVars, apiVars>>

\* the tunnel client goes away: it obeys the exit request, or ends on its own
EngineStops ==
    /\ engine = "running"
    /\ engine' = "stopped"
    /\ UNCHANGED <<cmdVars, libVars, waited, apiVars>>

\* ------------------------------------------------------------ accountMain
\* part_010:185-334 (select account).  sel: the account the --account flag or
\* the form designates ("" = no match / form aborted); validate: outcome of
\* the server validation that follows the switch ("down": the health check
\* fails, "nouser": GetUser fails); username: user.Username ("" = nil or empty).
\* UpdateAccountUserInfo storing a new Account value instead of the updated copy
UpdateAccountUserInfoFresh(accts, userID, username) ==
    IF userID \notin DOMAIN accts THEN accts
    ELSE Put(accts, userID,
             [SessionToken |-> "", OrgID |-> "", OlmCredentials |-> 0, Username |-> username])

\* part_026:170-186
UpdateAccountUserInfo(accts, userID, username) ==
    IF userID \notin DOMAIN accts THEN accts
    ELSE Put(accts, userID,
             [accts[userID] EXCEPT !.Username = IF username # "" THEN username ELSE @])

\* part_010:262-281 returning the failure of the health check or of GetUser
ValidationErrorFatal(validate) ==
    IF validate = "ok" THEN "" ELSE "unable to verify with server"

\* part_010:262-281: a failing health check and a failing GetUser are warned
\* about and the command returns nil
ValidationError(validate) == ""

accountMain(sel, validate, username) ==
    /\ pc = "idle"
    /\ IF DOMAIN Accounts = {}
       THEN /\ result' = [cmd |-> "select account", err |-> "not logged in", user |-> "",
                          validate |-> "not reached"]
            /\ UNCHANGED storeVars
       ELSE IF sel \notin DOMAIN Accounts
       THEN /\ result' = [cmd |-> "select account", err |-> "no accounts found", user |-> "",
                          validate |-> "not reached"]
            /\ UNCHANGED storeVars
       ELSE /\ ActiveUserID' = sel
            /\ Accounts' = IF validate = "ok"
                           THEN UpdateAccountUserInfo(Accounts, sel, username)
                           ELSE Accounts
            /\ result' = [cmd |-> "select account", err |-> ValidationError(validate),
                          user |-> sel, validate |-> validate]
    /\ ResetFlow
    /\ storeAtStart' = Store'
    /\ credAtLogout' = Forget(credAtLogout, Accounts)
    /\ UNCHANGED <<nextOlm, olmVars, libVars, waitVars, apiVars>>

\* ---------------------------------------------------------- SelectOrgForm
\* internal/utils/org.go:15-61.  resp: the ListUserOrgs response; choice: the
\* entry picked in the form ("" = the form was aborted).  asked: the form was
\* shown.
OrgLists == {<<>>, <<"o1">>, <<"o1", "o2">>}
OrgResponses == {[err |-> TRUE, orgs |-> <<>>]} \cup {[err |-> FALSE, orgs |-> l] : l \in OrgLists}

Range(f) == {f[i] : i \in DOMAIN f}

\* SelectOrgForm without the single organization shortcut of org.go:26-29
SelectOrgFormAlwaysAsks(resp, choice) ==
    IF resp.err THEN [err |-> "failed to list organizations", org |-> "", asked |-> FALSE]
    ELSE IF Len(resp.orgs) = 0
    THEN [err |-> "no organizations found for this user", org |-> "", asked |-> FALSE]
    ELSE IF choice \in Range(resp.orgs) THEN [err |-> "", org |-> choice, asked |-> TRUE]
    ELSE [err |-> "error selecting organization", org |-> "", asked |-> TRUE]

SelectOrgForm(resp, choice) ==
    IF resp.err THEN [err |-> "failed to list organizations", org |-> "", asked |-> FALSE]
    ELSE IF Len(resp.orgs) = 0
    THEN [err |-> "no organizations found for this user", org |-> "", asked |-> FALSE]
    ELSE IF Len(resp.orgs) = 1 THEN [err |-> "", org |-> resp.orgs[1], asked |-> FALSE]
    ELSE IF choice \in Range(resp.orgs) THEN [err |-> "", org |-> choice, asked |-> TRUE]
    ELSE [err |-> "error selecting organization", org |-> "", asked |-> TRUE]

\* ---------------------------------------------------------------- orgMain
\* part_010:429-506 (select org).  flagOrg: the --org flag ("" = not given).
\* activeAccount is the copy ActiveAccount() returned; the org id is assigned
\* to that copy and the store is saved as it was loaded.  The result of a
\* select org that found an active account also tells what the resolution
\* was given and what it returned: flag (the --org flag), listed (ListUserOrgs
\* succeeded), orgs (the organizations listed), asked, org.
\* orgMain that takes the --org flag without the test of part_010:452-464
SelectedOrgNoValidation(flagOrg, resp, choice) ==
    IF flagOrg # ""
    THEN IF resp.err THEN [err |-> "failed to list organizations", org |-> "", asked |-> FALSE]
         ELSE [err |-> "", org |-> flagOrg, asked |-> FALSE]
    ELSE SelectOrgForm(resp, choice)

SelectedOrg(flagOrg, resp, choice) ==
    IF flagOrg # ""
    THEN IF resp.err THEN [err |-> "failed to list organizations", org |-> "", asked |-> FALSE]
         ELSE IF flagOrg \in Range(resp.orgs) THEN [err |-> "", org |-> flagOrg, asked |-> FALSE]
         ELSE [err |-> "organization not found", org |-> "", asked |-> FALSE]
    ELSE SelectOrgForm(resp, choice)

orgMain(flagOrg, resp, choice) ==
    /\ pc = "idle"
    /\ LET active == ActiveAccount(Store)
           selected == SelectedOrg(flagOrg, resp, choice)
       IN  IF active.err # ""
           THEN result' = [cmd |-> "select org", err |-> active.err, user |-> ""]
           ELSE result' = [cmd |-> "select org", err |-> selected.err, user |-> active.user,
                           flag |-> flagOrg, listed |-> ~resp.err, orgs |-> resp.orgs,
                           asked |-> selected.asked, org |-> selected.org]
    /\ UNCHANGED storeVars
    /\ ResetFlow
    /\ storeAtStart' = Store
    /\ credAtLogout' = Forget(credAtLogout, Accounts)
    /\ UNCHANGED <<nextOlm, olmVars, libVars, waitVars, apiVars>>

\* ----------------------------------------------------------- loginWithWeb
\* part_002:35-141.  Poll responses, as PollDeviceWebAuth (part_029:745-806)
\* hands them to the loop: err = 0 for a success envelope, the status of the
\* ErrorResponse for an error envelope, -1 for a transport error.
PollResponses ==
    {[err |-> 0, verified |-> FALSE, token |-> "", message |-> m] :
        m \in {"", "Code expired", "Code not found"}}
    \cup {[err |-> 0, verified |-> TRUE, token |-> t, message |-> ""] : t \in Tokens \cup {""}}
    \cup {[err |-> e, verified |-> FALSE, token |-> "", message |-> ""] : e \in {429, 403, 500, -1}}

\* LoginStart that drops the active account before the flow has been verified
LoginStartClearsActive(expires) ==
    /\ pc = "idle"
    /\ pc' = "polling"
    /\ expiresIn' = expires
    /\ elapsed' = 0
    /\ pollCount' = 0
    /\ nPending' = 0
    /\ lastResp' = NoResp
    /\ flowState' = "Polling"
    /\ sessionToken' = ""
    /\ createCalls' = 0
    /\ storeAtStart' = Store
    /\ result' = [cmd |-> "login", err |-> "", user |-> ""]
    /\ credAtLogout' = Forget(credAtLogout, Accounts)
    /\ ActiveUserID' = ""
    /\ listener' = "waiting"
    /\ UNCHANGED <<Accounts, nextOlm, olmVars, libVars, waitVars, apiVars>>

\* part_002:59-93: the code is issued, expiresAt and startTime are taken
LoginStart(expires) ==
    /\ pc = "idle"
    /\ pc' = "polling"
    /\ expiresIn' = expires
    /\ elapsed' = 0
    /\ pollCount' = 0
    /\ nPending' = 0
    /\ lastResp' = NoResp
    /\ flowState' = "Polling"
    /\ sessionToken' = ""
    /\ createCalls' = 0
    /\ storeAtStart' = Store
    /\ result' = [cmd |-> "login", err |-> "", user |-> ""]
    /\ credAtLogout' = Forget(credAtLogout, Accounts)
    /\ listener' = "waiting"
    /\ UNCHANGED <<storeVars, nextOlm, olmVars, libVars, waitVars, apiVars>>

\* part_002:59-62: the start request fails
LoginStartFail ==
    /\ pc = "idle"
    /\ ResetFlow
    /\ storeAtStart' = Store
    /\ result' = [cmd |-> "login", err |-> "failed to start device web auth", user |-> ""]
    /\ credAtLogout' = Forget(credAtLogout, Accounts)
    /\ UNCHANGED <<storeVars, nextOlm, olmVars, libVars, waitVars, apiVars>>

\* loginWithWeb returned an error: LoginCmd logs it and returns (part_002:210-214)
FlowEnds(state, err) ==
    /\ pc' = "idle"
    /\ flowState' = state
    /\ sessionToken' = ""
    /\ result' = [cmd |-> "login", err |-> err, user |-> ""]

\* part_002:102-105: time.Now().After(expiresAt)
PollExpired ==
    /\ pc = "polling"
    /\ elapsed > expiresIn
    /\ FlowEnds("Expired", "code expired")
    /\ UNCHANGED <<storeVars, expiresIn, elapsed, pollCount, nPending, lastResp,
                   createCalls, nextOlm, storeAtStart, credAtLogout, listener, olmVars, libVars, waitVars, apiVars>>

\* part_002:108-111: time.Since(startTime) > maxPollDuration
PollTimeout ==
    /\ pc = "polling"
    /\ ~(elapsed > expiresIn)
    /\ elapsed > MaxPollDuration
    /\ FlowEnds("Timeout", "polling timeout")
    /\ UNCHANGED <<storeVars, expiresIn, elapsed, pollCount, nPending, lastResp,
                   createCalls, nextOlm, storeAtStart, credAtLogout, listener, olmVars, libVars, waitVars, apiVars>>

\* PollOutcome with every poll error retried after the sleep, as the 429
\* branch of the earlier loop did for the rate limit (part_002:417-422)
PollOutcomeRetriesErrors(resp) ==
    IF resp.err # 0 THEN "Polling"
    ELSE IF resp.verified THEN (IF resp.token = "" THEN "Failed" ELSE "Verified")
    ELSE IF resp.message \in {"Code expired", "Code not found"} THEN "Expired"
    ELSE "Polling"

\* PollOutcome without the empty token check of part_002:125-128
PollOutcomeNoTokenCheck(resp) ==
    IF resp.err # 0 THEN "Failed"
    ELSE IF resp.verified THEN "Verified"
    ELSE IF resp.message \in {"Code expired", "Code not found"} THEN "Expired"
    ELSE "Polling"

\* part_002:117-139: what the loop does with one poll response
PollOutcome(resp) ==
    IF resp.err # 0 THEN "Failed"
    ELSE IF resp.verified THEN (IF resp.token = "" THEN "Failed" ELSE "Verified")
    ELSE IF resp.message \in {"Code expired", "Code not found"} THEN "Expired"
    ELSE "Polling"

\* the token returned when the assignment of part_002:124 declares a new
\* variable in the if block and the outer token (part_002:96) stays empty
ReturnedTokenShadowed(resp) == ""

\* part_002:96, 124-129: the token loginWithWeb returns
ReturnedToken(resp) == IF PollOutcome(resp) = "Verified" THEN resp.token ELSE ""

\* the sleep with the 3 s interval of the earlier loginWithWeb (part_002:392)
SleepAfterPollBackoff(outcome) == IF outcome = "Polling" THEN 3 ELSE 0

\* part_002:139: time.Sleep(pollInterval) before the next iteration
SleepAfterPoll(outcome) == IF outcome = "Polling" THEN PollInterval ELSE 0

\* PollRequest without the ceiling check of part_002:108-111 before the poll
PollRequestNoCeiling(resp, latency) ==
    /\ pc = "polling"
    /\ ~(elapsed > expiresIn)
    /\ pollCount' = pollCount + 1
    /\ lastResp' = resp
    /\ LET outcome == PollOutcome(resp) IN
        /\ elapsed' = elapsed + latency + SleepAfterPoll(outcome)
        /\ flowState' = outcome
        /\ nPending' = IF outcome = "Polling" THEN nPending + 1 ELSE nPending
        /\ pc' = CASE outcome = "Polling" -> "polling"
                   [] outcome = "Verified" -> "authorized"
                   [] OTHER -> "idle"
        /\ sessionToken' = ReturnedToken(resp)
        /\ result' = [cmd |-> "login",
                      err |-> CASE outcome = "Failed" -> "failed to poll device web auth"
                                [] outcome = "Expired" -> "code expired or not found"
                                [] OTHER -> "",
                      user |-> ""]
    /\ UNCHANGED <<storeVars, expiresIn, createCalls, nextOlm, storeAtStart, credAtLogout,
                   listener, olmVars, libVars, waitVars, apiVars>>

\* part_002:113-140: one poll request that takes latency seconds, its
\* response resp, and the sleep that follows a {verified:false} response
PollRequest(resp, latency) ==
    /\ pc = "polling"
    /\ ~(elapsed > expiresIn)
    /\ ~(elapsed > MaxPollDuration)
    /\ pollCount' = pollCount + 1
    /\ lastResp' = resp
    /\ LET outcome == PollOutcome(resp) IN
        /\ elapsed' = elapsed + latency + SleepAfterPoll(outcome)
        /\ flowState' = outcome
        /\ nPending' = IF outcome = "Polling" THEN nPending + 1 ELSE nPending
        /\ pc' = CASE outcome = "Polling" -> "polling"
                   [] outcome = "Verified" -> "authorized"
                   [] OTHER -> "idle"
        /\ sessionToken' = ReturnedToken(resp)
        /\ result' = [cmd |-> "login",
                      err |-> CASE outcome = "Failed" -> "failed to poll device web auth"
                                [] outcome = "Expired" -> "code expired or not found"
                                [] OTHER -> "",
                      user |-> ""]
    /\ UNCHANGED <<storeVars, expiresIn, createCalls, nextOlm, storeAtStart, credAtLogout,
                   listener, olmVars, libVars, waitVars, apiVars>>

\* the operator interrupts login (Ctrl-C) while it polls or after the device
\* was authorized and before the account is saved
Cancel ==
    /\ pc \in {"polling", "authorized"}
    /\ pc' = "idle"
    /\ flowState' = IF pc = "polling" THEN "Cancelled" ELSE flowState
    /\ sessionToken' = ""
    /\ result' = [cmd |-> "login", err |-> "cancelled", user |-> ""]
    /\ UNCHANGED <<storeVars, expiresIn, elapsed, pollCount, nPending, lastResp,
                   createCalls, nextOlm, storeAtStart, credAtLogout, listener, olmVars, libVars, waitVars, apiVars>>

\* ------------------------------------------------ the press-Enter listener
\* part_002:77-89: the goroutine loginWithWeb starts before the poll loop.  It
\* blocks in ReadString ("waiting") until the operator presses Enter, then
\* opens the browser ("opened"; "openFailed" when OpenURL fails, which is
\* logged), or until the read fails ("readFailed"), and ends.  It lives as
\* long as the login process.
EnterPressed(openOk) ==
    /\ pc \in {"polling", "authorized"}
    /\ listener = "waiting"
    /\ listener' = IF openOk THEN "opened" ELSE "openFailed"
    /\ UNCHANGED <<storeVars, flowVars, createCalls, nextOlm, storeAtStart, credAtLogout,
                   result, olmVars, libVars, waitVars, apiVars>>

\* the read failing as in the earlier loginWithWeb, which read stdin before
\* the loop and returned "failed to read input" (part_002:377-382)
StdinFailsFatal ==
    /\ pc \in {"polling", "authorized"}
    /\ listener = "waiting"
    /\ listener' = "readFailed"
    /\ FlowEnds("Failed", "failed to read input")
    /\ UNCHANGED <<storeVars, expiresIn, elapsed, pollCount, nPending, lastResp,
                   createCalls, nextOlm, storeAtStart, credAtLogout, olmVars, libVars, waitVars, apiVars>>

\* part_002:79-80: ReadString returns an error (stdin closed or not readable)
StdinFails ==
    /\ pc \in {"polling", "authorized"}
    /\ listener = "waiting"
    /\ listener' = "readFailed"
    /\ UNCHANGED <<storeVars, flowVars, createCalls, nextOlm, storeAtStart, credAtLogout,
                   result, olmVars, libVars, waitVars, apiVars>>

\* --------------------------------------------- LoginCmd after loginWithWeb
\* part_002:258-268: the account login stores
NewAccount(token, org, olm) ==
    [SessionToken |-> token, OrgID |-> org, OlmCredentials |-> olm,
     Username |-> ""]

\* part_002:216-256: the first step of LoginCmd that makes it return early
\* ("" = none).  user: the user id GetUser reports ("" = the call failed);
\* org: what SelectOrgForm returned; olmOk: CreateOlm succeeded.
LoginError(accts, token, user, org, olmOk) ==
    IF token = "" THEN "no session token was received"
    ELSE IF user = "" THEN "failed to get user information"
    ELSE IF user \in DOMAIN accts THEN "already logged in as this user"
    ELSE IF org.err # "" THEN "failed to select organization"
    ELSE IF ~olmOk THEN "failed to obtain olm credentials"
    ELSE ""

\* part_002:216-285
LoginFinish(user, orgResp, choice, olmOk) ==
    /\ pc = "authorized"
    /\ LET org == SelectOrgForm(orgResp, choice)
           err == LoginError(Accounts, sessionToken, user, org, olmOk)
       IN  /\ err = "" => nextOlm <= MaxOlm
           /\ createCalls' = IF err \in {"", "failed to obtain olm credentials"} THEN 1 ELSE 0
           /\ nextOlm' = IF err = "" THEN nextOlm + 1 ELSE nextOlm
           /\ Accounts' = IF err = ""
                          THEN Put(Accounts, user, NewAccount(sessionToken, org.org, nextOlm))
                          ELSE Accounts
           /\ ActiveUserID' = IF err = "" THEN user ELSE ActiveUserID
           /\ result' = [cmd |-> "login", err |-> err, user |-> user]
    /\ pc' = "idle"
    /\ UNCHANGED <<expiresIn, elapsed, pollCount, nPending, lastResp, flowState,
                   sessionToken, storeAtStart, credAtLogout, listener, olmVars, libVars, waitVars, apiVars>>

\* --------------------------------------------------- EnsureOlmCredentials
\* internal/utils/auth.go:199-262.  A server call is logged with the answer
\* it got: for GetUserOlm 0 (the credential exists), the status of the
\* ErrorResponse, or -1 (an error that is no ErrorResponse: transport); for
\* the recover and create calls the id of the credential, 0 when the call
\* failed.
VerifyAnswers == {0, 404, 401, 500, 429, -1}

Call(name, answer) == [call |-> name, answer |-> answer]

\* cred: account.OlmCredentials (0 = nil); verify: the answer of GetUserOlm;
\* cacheExists: the platform_fingerprint file can be read; cachedOlm, liveOlm:
\* the answers to recovery with the cached and with the live fingerprint;
\* newOlm: the answer of CreateOlm.  The result holds the returned pair
\* (changed, err), the credential of *account on return and the calls made.
\*
\* EnsureOlmCredentials without the early return of auth.go:204-206
EnsureOlmCredentialsNoEarlyReturn(cred, verify, cacheExists, cachedOlm, liveOlm, newOlm) ==
    LET lookup == IF cred # 0 THEN <<Call("GetUserOlm", verify)>> ELSE <<>>
        cached == IF cacheExists THEN <<Call("RecoverCached", cachedOlm)>> ELSE <<>>
        live == <<Call("RecoverLive", liveOlm)>>
        create == <<Call("CreateOlm", newOlm)>>
    IN  IF cred # 0 /\ verify = -1
        THEN [changed |-> FALSE, err |-> "failed to get OLM", cred |-> cred, calls |-> lookup]
        ELSE IF cacheExists /\ cachedOlm # 0
        THEN [changed |-> TRUE, err |-> "", cred |-> cachedOlm, calls |-> lookup \o cached]
        ELSE IF liveOlm # 0
        THEN [changed |-> TRUE, err |-> "", cred |-> liveOlm, calls |-> lookup \o cached \o live]
        ELSE IF newOlm # 0
        THEN [changed |-> TRUE, err |-> "", cred |-> newOlm,
              calls |-> lookup \o cached \o live \o create]
        ELSE [changed |-> FALSE, err |-> "failed to create OLM", cred |-> 0,
              calls |-> lookup \o cached \o live \o create]

\* EnsureOlmCredentials creating the credential before the recovery with the
\* live fingerprint, as the version without recovery did (auth.go:99-114)
EnsureOlmCredentialsCreatesFirst(cred, verify, cacheExists, cachedOlm, liveOlm, newOlm) ==
    LET lookup == IF cred # 0 THEN <<Call("GetUserOlm", verify)>> ELSE <<>>
        cached == IF cacheExists THEN <<Call("RecoverCached", cachedOlm)>> ELSE <<>>
        create == <<Call("CreateOlm", newOlm)>>
    IN  IF cred # 0 /\ verify = 0
        THEN [changed |-> FALSE, err |-> "", cred |-> cred, calls |-> lookup]
        ELSE IF cred # 0 /\ verify = -1
        THEN [changed |-> FALSE, err |-> "failed to get OLM", cred |-> cred, calls |-> lookup]
        ELSE IF cacheExists /\ cachedOlm # 0
        THEN [changed |-> TRUE, err |-> "", cred |-> cachedOlm, calls |-> lookup \o cached]
        ELSE IF newOlm # 0
        THEN [changed |-> TRUE, err |-> "", cred |-> newOlm, calls |-> lookup \o cached \o create]
        ELSE [changed |-> FALSE, err |-> "failed to create OLM", cred |-> 0,
              calls |-> lookup \o cached \o create]

\* auth.go:199-262
EnsureOlmCredentials(cred, verify, cacheExists, cachedOlm, liveOlm, newOlm) ==
    LET lookup == IF cred # 0 THEN <<Call("GetUserOlm", verify)>> ELSE <<>>
        cached == IF cacheExists THEN <<Call("RecoverCached", cachedOlm)>> ELSE <<>>
        live == <<Call("RecoverLive", liveOlm)>>
        create == <<Call("CreateOlm", newOlm)>>
    IN  IF cred # 0 /\ verify = 0
        THEN [changed |-> FALSE, err |-> "", cred |-> cred, calls |-> lookup]
        ELSE IF cred # 0 /\ verify = -1
        THEN [changed |-> FALSE, err |-> "failed to get OLM", cred |-> cred, calls |-> lookup]
        ELSE IF cacheExists /\ cachedOlm # 0
        THEN [changed |-> TRUE, err |-> "", cred |-> cachedOlm, calls |-> lookup \o cached]
        ELSE IF liveOlm # 0
        THEN [changed |-> TRUE, err |-> "", cred |-> liveOlm, calls |-> lookup \o cached \o live]
        ELSE IF newOlm # 0
        THEN [changed |-> TRUE, err |-> "", cred |-> newOlm,
              calls |-> lookup \o cached \o live \o create]
        ELSE [changed |-> FALSE, err |-> "failed to create OLM", cred |-> 0,
              calls |-> lookup \o cached \o live \o create]

\* ----------------------------------------------------------- clientUpMain
\* part_004:109-214: up without --id/--secret and --org, to the point where
\* the tunnel is configured; what follows reads the store and does not write
\* it.  pre: "running" when a client is already running, "down" when the
\* health check fails; the other parameters are those of EnsureOlmCredentials,
\* with createOk for a CreateOlm call that succeeds.
\* the store up saves when it calls Save without UpdateActiveAccount
\* (part_005:149-155): the credential was set on the copy ActiveAccount returned
UpStoreNoUpdate(s, userID, cred, changed) == s

\* part_004:198-210, part_026:146-157: the store up saves
UpStore(s, userID, cred, changed) ==
    IF changed
    THEN [ActiveUserID |-> s.ActiveUserID,
          Accounts |-> Put(s.Accounts, userID, [s.Accounts[userID] EXCEPT !.OlmCredentials = cred])]
    ELSE s

Called(run, name) == \E i \in DOMAIN run.calls : run.calls[i].call = name

\* GetUserOlm found the credential the account held
RunVerified(run) ==
    run.before # 0 /\ run.calls # <<>> /\ run.calls[1] = Call("GetUserOlm", 0)

\* clientUpMain with the health check of part_004:172-178 left out, the server
\* being reached first by EnsureOlmCredentials
UpEarlyErrorNoHealthCheck(pre, active) ==
    IF pre = "running" THEN "a client is already running"
    ELSE active.err

\* part_004:120-178: the checks before the credential is looked at
UpEarlyError(pre, active) ==
    IF pre = "running" THEN "a client is already running"
    ELSE IF active.err # "" THEN active.err
    ELSE IF pre = "down" THEN "the server appears to be down"
    ELSE ""

clientUpMain(pre, verify, cacheExists, cachedOlm, liveOlm, createOk) ==
    /\ pc = "idle"
    /\ LET active == ActiveAccount(Store) IN
       IF UpEarlyError(pre, active) # ""
       THEN /\ result' = [cmd |-> "up", err |-> UpEarlyError(pre, active), user |-> "",
                          pre |-> pre]
            /\ UNCHANGED <<storeVars, nextOlm, olmRun>>
       ELSE /\ (liveOlm # 0) <=> (active.user \in recoverable)
            /\ \E cred \in {Accounts[active.user].OlmCredentials} :
               \E run \in {EnsureOlmCredentials(cred, verify, cacheExists, cachedOlm, liveOlm,
                                                IF createOk THEN nextOlm ELSE 0)} :
               LET created == Called(run, "CreateOlm") /\ createOk
                   saved == UpStore(Store, active.user, run.cred, run.changed)
                   again == olmRun.user = active.user /\ RunVerified(olmRun)
               IN
                /\ created => nextOlm <= MaxOlm
                /\ nextOlm' = IF created THEN nextOlm + 1 ELSE nextOlm
                /\ Accounts' = saved.Accounts
                /\ ActiveUserID' = saved.ActiveUserID
                /\ olmRun' = [user |-> active.user, before |-> cred,
                              cache |-> cacheExists /\ (Called(run, "RecoverCached")
                                                        \/ Called(run, "RecoverLive")),
                              calls |-> run.calls, changed |-> run.changed,
                              err |-> run.err, after |-> run.cred,
                              priorVerified |-> again,
                              priorChanged |-> again /\ olmRun.changed]
                /\ result' = [cmd |-> "up",
                              err |-> IF run.err # "" THEN run.err
                                      ELSE IF Accounts[active.user].OrgID = ""
                                      THEN "organization not selected" ELSE "",
                              user |-> active.user, pre |-> pre]
    /\ ResetFlow
    /\ storeAtStart' = Store
    /\ credAtLogout' = Forget(credAtLogout, Accounts)
    /\ UNCHANGED <<recoverable, libVars, waitVars, apiVars>>

\* server side: the machine's fingerprint starts to designate a credential of
\* user u (a tunnel of u connected from this machine) or stops to (the
\* credential was deleted); RecoverOlmFromFingerprint (part_029:326-341)
\* with the live fingerprint succeeds for the users in recoverable
ServerChange(u) ==
    /\ recoverable' = IF u \in recoverable THEN recoverable \ {u} ELSE recoverable \cup {u}
    /\ UNCHANGED <<storeVars, flowVars, createCalls, nextOlm, storeAtStart, credAtLogout,
                   result, listener, olmRun, libVars, waitVars, apiVars>>

\* ------------------------------------------------------------- statusMain
\* cmd/auth/status/status.go:29-126 (auth status).  The health check and
\* GetUser decide what is printed only: the command returns the error of
\* ActiveAccount or nil, and never writes the store.
statusMain ==
    /\ pc = "idle"
    /\ LET active == ActiveAccount(Store) IN
       result' = [cmd |-> "status", err |-> active.err, user |-> active.user]
    /\ UNCHANGED storeVars
    /\ ResetFlow
    /\ storeAtStart' = Store
    /\ credAtLogout' = Forget(credAtLogout, Accounts)
    /\ UNCHANGED <<nextOlm, olmVars, libVars, waitVars, apiVars>>

\* -------------------------------------------------------- EnsureOrgAccess
\* internal/utils/auth.go:264-286.  An error value is a record holding its
\* dynamic type and the fields of that type.  An API call (Client.request,
\* part_029:143-190) answers 0 when the envelope reports success, a status
\* when it reports an error (*api.ErrorResponse), -1 when the request failed
\* in transport (fmt.Errorf("request failed: %w", err)).
ApiAnswers == {0, 403, 404, 500, -1}

Nil == [type |-> "nil"]

ApiError(answer) ==
    IF answer = 0 THEN Nil
    ELSE IF answer = -1 THEN [type |-> "*fmt.wrapError", msg |-> "request failed"]
    ELSE [type |-> "*api.ErrorResponse", status |-> answer]

\* fmt.Sprintf("%s/%s", FormatHostnameBaseURL(account.Host), account.OrgID)
OrgURL(orgID) == <<"host", "/", orgID>>

\* getOrg, access: the answers to GetOrg and CheckOrgUserAccess; allowed:
\* accessResponse.Allowed.  The policy error is made by fmt.Errorf without
\* %w: an *errors.errorString whose text holds the URL.
EnsureOrgAccess(orgID, getOrg, access, allowed) ==
    IF getOrg # 0 THEN ApiError(getOrg)
    ELSE IF access # 0 THEN ApiError(access)
    ELSE IF ~allowed
    THEN [type |-> "*errors.errorString",
          msg |-> <<"Organization policy is preventing you from connecting. Please visit ">>
                  \o OrgURL(orgID) \o <<" to complete required steps">>]
    ELSE Nil

EnsureOrgAccessCall(orgID, getOrg, access, allowed) ==
    /\ call' = [fn |-> "EnsureOrgAccess", org |-> orgID, getOrg |-> getOrg, access |-> access,
                allowed |-> allowed, out |-> EnsureOrgAccess(orgID, getOrg, access, allowed)]
    /\ UNCHANGED <<cmdVars, file, proc, waitVars, apiVars>>

\* ------------------------------------------------ LoadAccountStore, Save
\* part_026:48-86, 159-168.  The store is kept by a viper instance bound to
\* accounts.json.  A file is absent, holds a JSON document (json), or holds
\* bytes that are no account document: none (empty), a part of a document
\* (partial), other bytes (garbage), or a JSON document whose "accounts" is
\* a string (misshapen: it is read, and Unmarshal fails on it).  A JSON object is a function from its keys.
\*
\* user ids a server can answer; the store keeps the string as it is sent
StoreIDs == {"u1", "U2"}

StoredAccounts == {[SessionToken |-> "T1", OrgID |-> "o1", OlmCredentials |-> 1, Username |-> "name"],
                   [SessionToken |-> "T1", OrgID |-> "", OlmCredentials |-> 0, Username |-> ""],
                   [SessionToken |-> "", OrgID |-> "", OlmCredentials |-> 1, Username |-> ""]}

\* the stores a command can hold when it calls Save
Stores ==
    UNION {[ActiveUserID : ids \cup {""}, Accounts : [ids -> StoredAccounts]] :
           ids \in SUBSET StoreIDs}

EmptyStore == [ActiveUserID |-> "", Accounts |-> <<>>]

\* strings.ToLower on the keys that occur
ToLower(k) ==
    CASE k = "activeUserId" -> "activeuserid"
      [] k = "userId" -> "userid"
      [] k = "sessionToken" -> "sessiontoken"
      [] k = "orgId" -> "orgid"
      [] k = "olmCredentials" -> "olmcredentials"
      [] k = "U2" -> "u2"
      [] OTHER -> k

\* encoding/json on config.Account with the json tags of part_026:20-30:
\* orgId, olmCredentials and username are omitted when empty or nil
AccountJSON(userID, a) ==
    LET keys == {"userId", "sessionToken"}
                \cup (IF a.OrgID # "" THEN {"orgId"} ELSE {})
                \cup (IF a.OlmCredentials # 0 THEN {"olmCredentials"} ELSE {})
                \cup (IF a.Username # "" THEN {"username"} ELSE {})
    IN  [k \in keys |-> CASE k = "userId" -> userID
                          [] k = "sessionToken" -> a.SessionToken
                          [] k = "orgId" -> a.OrgID
                          [] k = "olmCredentials" -> a.OlmCredentials
                          [] k = "username" -> a.Username]

\* the document WriteConfig writes after Set("activeUserId", ...) and
\* Set("accounts", ...): viper keeps the keys it is given in lower case; the
\* value of "accounts" is the Go map, encoded with its keys as they are
SavedFile(s) ==
    [kind |-> "json",
     doc |-> [k \in {ToLower("activeUserId"), ToLower("accounts")} |->
                 IF k = "accounts"
                 THEN [u \in DOMAIN s.Accounts |-> AccountJSON(u, s.Accounts[u])]
                 ELSE s.ActiveUserID]]

\* viper's insensitiviseMap: the keys of an object in lower case
FoldKeys(obj) ==
    [k \in {ToLower(x) : x \in DOMAIN obj} |->
        obj[CHOOSE x \in DOMAIN obj : ToLower(x) = k]]

\* ReadInConfig (part_026:76): the error of the read when the file is
\* absent, a parse error when the bytes are no JSON; otherwise the document
\* with the keys of every nested object in lower case
ReadInConfig(f) ==
    IF f.kind = "absent" THEN [err |-> "os.ErrNotExist"]
    ELSE IF f.kind \in {"empty", "partial", "garbage"} THEN [err |-> "ConfigParseError"]
    ELSE IF f.kind = "misshapen" THEN [err |-> "", typed |-> FALSE, config |-> <<>>]
    ELSE [err |-> "", typed |-> TRUE,
          config |-> LET top == FoldKeys(f.doc) IN
                     [k \in DOMAIN top |->
                         IF k = "accounts"
                         THEN LET accts == FoldKeys(top[k]) IN
                              [u \in DOMAIN accts |-> FoldKeys(accts[u])]
                         ELSE top[k]]]

\* mapstructure: the value of the key that equals the tag, case ignored; the
\* zero value when there is none
Field(obj, tag, zero) ==
    IF \E k \in DOMAIN obj : ToLower(k) = ToLower(tag)
    THEN obj[CHOOSE k \in DOMAIN obj : ToLower(k) = ToLower(tag)]
    ELSE zero

\* v.Unmarshal(&store) (part_026:83) with the mapstructure tags
Unmarshal(config) ==
    LET accts == Field(config, "accounts", <<>>) IN
    [ActiveUserID |-> Field(config, "activeUserId", ""),
     Accounts |-> [u \in DOMAIN accts |->
                      [SessionToken |-> Field(accts[u], "sessionToken", ""),
                       OrgID |-> Field(accts[u], "orgId", ""),
                       OlmCredentials |-> Field(accts[u], "olmCredentials", 0),
                       Username |-> Field(accts[u], "username", "")]]]

\* LoadAccountStore that returns the error of a missing file
LoadAccountStoreNoFirstRun(f) ==
    LET read == ReadInConfig(f) IN
    IF read.err # "" THEN [err |-> read.err, store |-> EmptyStore]
    ELSE IF ~read.typed THEN [err |-> "unmarshal error", store |-> EmptyStore]
    ELSE [err |-> "", store |-> Unmarshal(read.config)]

\* LoadAccountStore that starts from an empty store when the file cannot be
\* parsed
LoadAccountStoreResetsCorrupt(f) ==
    LET read == ReadInConfig(f) IN
    IF read.err # "" THEN [err |-> "", store |-> EmptyStore]
    ELSE IF ~read.typed THEN [err |-> "", store |-> EmptyStore]
    ELSE [err |-> "", store |-> Unmarshal(read.config)]

\* part_026:62-86; store is the store returned (the empty one stands for nil)
LoadAccountStore(f) ==
    LET read == ReadInConfig(f) IN
    IF read.err = "os.ErrNotExist" THEN [err |-> "", store |-> EmptyStore]
    ELSE IF read.err # "" THEN [err |-> read.err, store |-> EmptyStore]
    ELSE IF ~read.typed THEN [err |-> "unmarshal error", store |-> EmptyStore]
    ELSE [err |-> "", store |-> Unmarshal(read.config)]

\* an invocation starts: RootCommand (cmd/root.go:66-69) loads the store and
\* returns the error of LoadAccountStore, on which Execute exits
RootCommand ==
    /\ proc.phase # "truncated"
    /\ LET loaded == LoadAccountStore(file) IN
       proc' = [phase |-> IF loaded.err # "" THEN "aborted" ELSE "loaded",
                saw |-> file, store |-> loaded.store, err |-> loaded.err]
    /\ call' = NoCall
    /\ UNCHANGED <<cmdVars, file, waitVars, apiVars>>

\* Save (part_026:159-168) of store s by the command of the invocation.
\* WriteConfig opens accounts.json with O_CREATE|O_TRUNC|O_WRONLY ...
SaveOpen(s) ==
    /\ proc.phase = "loaded"
    /\ file' = [kind |-> "empty"]
    /\ proc' = [proc EXCEPT !.phase = "truncated", !.store = s]
    /\ call' = NoCall
    /\ UNCHANGED <<cmdVars, waitVars, apiVars>>

\* ... and writes the document into it
SaveWrite ==
    /\ proc.phase = "truncated"
    /\ file' = SavedFile(proc.store)
    /\ proc' = [proc EXCEPT !.phase = "saved"]
    /\ call' = NoCall
    /\ UNCHANGED <<cmdVars, waitVars, apiVars>>

\* the process dies between the open and the end of the write
SaveCrash(written) ==
    /\ proc.phase = "truncated"
    /\ file' = [kind |-> IF written THEN "partial" ELSE "empty"]
    /\ proc' = [proc EXCEPT !.phase = "crashed"]
    /\ call' = NoCall
    /\ UNCHANGED <<cmdVars, waitVars, apiVars>>

\* another process loads the store
ReaderLoad ==
    /\ call' = [fn |-> "LoadAccountStore", saw |-> file, proc |-> proc,
                out |-> LoadAccountStore(file)]
    /\ UNCHANGED <<cmdVars, file, proc, waitVars, apiVars>>

\* the file is removed, or overwritten by something else than Save, while
\* no invocation is at work
ExternalWrite(kind) ==
    /\ proc.phase \notin {"loaded", "truncated"}
    /\ file' = [kind |-> kind]
    /\ proc' = NoProc
    /\ call' = NoCall
    /\ UNCHANGED <<cmdVars, waitVars, apiVars>>

\* ------------------------------------------------------- error responses
\* The envelope of a response (api.APIResponse, internal/api/types.go:62-69)
\* with error already a boolean, and the HTTP status it came with.
Statuses == {400, 401, 403, 404, 418, 429, 500}

Envelopes == [success : BOOLEAN, error : BOOLEAN, status : Statuses \cup {0},
              message : {"", "message of the server"}]

\* the switch of Client.request (part_029:176-187)
requestDefaultMessage(status) ==
    CASE status \in {401, 403} -> "Unauthorized"
      [] status = 404 -> "Not found"
      [] status = 500 -> "Internal server error"
      [] OTHER -> "An error occurred"

\* part_029:548-563
getDefaultErrorMessage(statusCode) ==
    CASE statusCode = 400 -> "Bad request"
      [] statusCode \in {401, 403} -> "Unauthorized"
      [] statusCode = 404 -> "Not found"
      [] statusCode = 429 -> "Rate limit exceeded"
      [] statusCode = 500 -> "Internal server error"
      [] OTHER -> "An error occurred"

\* part_029:566-579
getDeviceAuthErrorMessage(statusCode) ==
    CASE statusCode = 400 -> "Bad request"
      [] statusCode = 403 -> "IP address mismatch"
      [] statusCode = 429 -> "Rate limit exceeded"
      [] statusCode = 500 -> "Internal server error"
      [] OTHER -> "An error occurred"

\* the three places that turn an envelope into an error: Client.request
\* (every Get, Post, Put, Patch, Delete), LoginWithCookie, and
\* StartDeviceWebAuth and PollDeviceWebAuth
ApiPaths == {"request", "LoginWithCookie", "DeviceWebAuth"}

DefaultMessage(path, status) ==
    IF path = "request" THEN requestDefaultMessage(status)
    ELSE IF path = "LoginWithCookie" THEN getDefaultErrorMessage(status)
    ELSE getDeviceAuthErrorMessage(status)

\* createErrorResponse (part_029:529-545) and the same steps written out in
\* Client.request (part_029:165-188)
createErrorResponse(path, apiResp, httpStatusCode) ==
    LET status == IF apiResp.status = 0 THEN httpStatusCode ELSE apiResp.status IN
    [type |-> "*api.ErrorResponse",
     status |-> status,
     message |-> IF apiResp.message = "" THEN DefaultMessage(path, status)
                 ELSE apiResp.message]

\* the error an API call returns for a response it could parse
ApiCallError(path, apiResp, httpStatusCode) ==
    IF apiResp.error \/ ~apiResp.success
    THEN createErrorResponse(path, apiResp, httpStatusCode)
    ELSE Nil

ApiCall(path, apiResp, httpStatusCode) ==
    /\ call' = [fn |-> "ApiCall", path |-> path, envelope |-> apiResp,
                http |-> httpStatusCode, out |-> ApiCallError(path, apiResp, httpStatusCode)]
    /\ UNCHANGED <<cmdVars, file, proc, waitVars, apiVars>>

\* the HTTP status of a response and its body as Client.request reads it
\* (part_029:143-163): empty, not JSON, or an envelope; fields the envelope
\* lacks are the zero values of api.APIResponse
HttpStatuses == Statuses \cup {200}

Bodies ==
    {[kind |-> "empty"], [kind |-> "garbage"]}
    \cup {[kind |-> "json", envelope |-> e] : e \in Envelopes}

\* part_029:143-200: the error Client.request returns once the exchange
\* has produced a response
RequestError(body, httpStatusCode) ==
    IF body.kind = "empty" THEN Nil
    ELSE IF body.kind = "garbage"
    THEN [type |-> "*fmt.wrapError", msg |-> "failed to unmarshal response"]
    ELSE ApiCallError("request", body.envelope, httpStatusCode)

RequestCall(body, httpStatusCode) ==
    /\ call' = [fn |-> "Client.request", body |-> body, http |-> httpStatusCode,
                out |-> RequestError(body, httpStatusCode)]
    /\ UNCHANGED <<cmdVars, file, proc, waitVars, apiVars>>

\* ---------------------------------------------------------- specifications
Next ==
    \/ \E expires \in ExpiresShort : LoginStart(expires)
    \/ LoginStartFail
    \/ PollExpired
    \/ \E resp \in PollResponses : PollRequest(resp, 0)
    \/ Cancel
    \/ \E user \in Users \cup {""}, orgResp \in OrgResponses, choice \in Orgs \cup {""},
          olmOk \in BOOLEAN : LoginFinish(user, orgResp, choice, olmOk)
    \/ \E userID \in Users : Deactivate(userID)
    \/ \E proceed \in BOOLEAN, nextUserID \in Users \cup {""} : logoutMain(proceed, nextUserID)
    \/ \E sel \in Users \cup {""}, validate \in {"down", "nouser", "ok"},
          username \in {"", "name"} : accountMain(sel, validate, username)
    \/ \E flagOrg \in Orgs \cup {""}, resp \in OrgResponses, choice \in Orgs \cup {""} :
          orgMain(flagOrg, resp, choice)

\* every command, with poll requests that take no time
Spec == Init /\ [][Next]_vars

\* the device authorization flow alone (login is abandoned once the device is
\* authorized), with poll requests that take time and codes that outlive the
\* ceiling
NextFlow ==
    \/ \E expires \in ExpiresLong : LoginStart(expires)
    \/ LoginStartFail
    \/ PollExpired
    \/ PollTimeout
    \/ \E resp \in PollResponses, latency \in 0..MaxLatency : PollRequest(resp, latency)
    \/ Cancel

SpecFlow == Init /\ [][NextFlow]_vars

\* login, logout and up against a server whose fingerprint records change
NextOlm ==
    \/ \E expires \in ExpiresShort : LoginStart(expires)
    \/ PollExpired
    \/ \E resp \in PollResponses : PollRequest(resp, 0)
    \/ \E user \in Users \cup {""}, orgResp \in OrgResponses, choice \in Orgs \cup {""},
          olmOk \in BOOLEAN : LoginFinish(user, orgResp, choice, olmOk)
    \/ \E proceed \in BOOLEAN, nextUserID \in Users \cup {""} : logoutMain(proceed, nextUserID)
    \/ \E u \in Users : ServerChange(u)

SpecOlm == Init /\ [][NextOlm]_vars

\* the state a first login leaves (user u1, token T1, organization o1, one
\* poll, verified at once), with the server knowing the machine or not
InitUp ==
    /\ ActiveUserID = "u1"
    /\ Accounts = [u \in {"u1"} |-> NewAccount("T1", "o1", 1)]
    /\ sessionToken = "T1"
    /\ lastResp = [err |-> 0, verified |-> TRUE, token |-> "T1", message |-> ""]
    /\ pc = "idle"
    /\ expiresIn \in ExpiresShort
    /\ elapsed = 0
    /\ pollCount = 1
    /\ nPending = 0
    /\ flowState = "Verified"
    /\ createCalls = 1
    /\ nextOlm = 2
    /\ storeAtStart = [ActiveUserID |-> "", Accounts |-> <<>>]
    /\ credAtLogout = [u \in LogoutUsers |-> 0]
    /\ result = [cmd |-> "login", err |-> "", user |-> "u1"]
    /\ listener = "waiting"
    /\ recoverable \in SUBSET {"u1"}
    /\ olmRun = NoRun
    /\ file = NoFile
    /\ proc = NoProc
    /\ call = NoCall
    /\ engine = "stopped"
    /\ waited = 0
    /\ client = NoClient

\* up, run again and again by a logged-in user
NextUp ==
    \/ \E pre \in {"running", "down"} : clientUpMain(pre, 0, FALSE, 0, 0, FALSE)
    \/ \E verify \in VerifyAnswers, liveOlm \in 0..MaxOlm, createOk \in BOOLEAN :
          \/ clientUpMain("ok", verify, FALSE, 0, liveOlm, createOk)
          \/ \E cachedOlm \in 0..MaxOlm :
                clientUpMain("ok", verify, TRUE, cachedOlm, liveOlm, createOk)
    \/ \E u \in DOMAIN Accounts : ServerChange(u)

SpecUp == InitUp /\ [][NextUp]_vars

\* the device authorization flow with its listener
NextListener ==
    \/ \E expires \in ExpiresShort : LoginStart(expires)
    \/ LoginStartFail
    \/ PollExpired
    \/ \E resp \in PollResponses, latency \in 0..MaxLatency : PollRequest(resp, latency)
    \/ Cancel
    \/ \E openOk \in BOOLEAN : EnterPressed(openOk)
    \/ StdinFails

SpecListener == Init /\ [][NextListener]_vars

\* a store whose active user id names no account, as LoadAccountStore
\* returns it for a file that says so
InitDangling ==
    /\ ActiveUserID = "u2"
    /\ Accounts \in {<<>>, [u \in {"u1"} |-> NewAccount("T1", "o1", 1)]}
    /\ pc = "idle"
    /\ expiresIn = 0
    /\ elapsed = 0
    /\ pollCount = 0
    /\ nPending = 0
    /\ lastResp = NoResp
    /\ flowState = "none"
    /\ sessionToken = ""
    /\ createCalls = 0
    /\ nextOlm = 2
    /\ storeAtStart = Store
    /\ credAtLogout = [u \in LogoutUsers |-> 0]
    /\ result = [cmd |-> "none", err |-> "", user |-> ""]
    /\ listener = "none"
    /\ recoverable = {}
    /\ olmRun = NoRun
    /\ file = NoFile
    /\ proc = NoProc
    /\ call = NoCall
    /\ engine = "stopped"
    /\ waited = 0
    /\ client = NoClient

\* the commands that need the active account
NextDangling ==
    \/ \E proceed \in BOOLEAN, nextUserID \in Users \cup {""} : logoutMain(proceed, nextUserID)
    \/ \E flagOrg \in Orgs \cup {""}, resp \in OrgResponses, choice \in Orgs \cup {""} :
          orgMain(flagOrg, resp, choice)
    \/ statusMain
    \/ NextUp

SpecDangling == InitDangling /\ [][NextDangling]_vars

\* the library functions, each called on its own
NextLib ==
    \/ \E orgID \in Orgs, getOrg \in ApiAnswers, access \in ApiAnswers, allowed \in BOOLEAN :
          EnsureOrgAccessCall(orgID, getOrg, access, allowed)
    \/ \E path \in ApiPaths, apiResp \in Envelopes, httpStatusCode \in Statuses :
          ApiCall(path, apiResp, httpStatusCode)
    \/ \E body \in Bodies, httpStatusCode \in HttpStatuses :
          RequestCall(body, httpStatusCode)

SpecLib == Init /\ [][NextLib]_vars

\* accounts.json under invocations that load and save it, and a reader
NextStoreFile ==
    \/ RootCommand
    \/ \E s \in Stores : SaveOpen(s)
    \/ SaveWrite
    \/ \E written \in BOOLEAN : SaveCrash(written)
    \/ ReaderLoad
    \/ \E kind \in {"absent", "garbage", "misshapen"} : ExternalWrite(kind)

SpecStoreFile == Init /\ [][NextStoreFile]_vars

\* logout with the client's shutdown, from the store after u1 logged in,
\* after u2 and then u1 did (both reached in Spec), or after u2, u3 and u1
\* did; the client running or not
InitLogout ==
    /\ ActiveUserID = "u1"
    /\ Accounts \in {[u \in {"u1"} |-> NewAccount("T1", "o1", 1)],
                     [u \in {"u1", "u2"} |->
                        NewAccount("T1", "o1", IF u = "u1" THEN 2 ELSE 1)],
                     [u \in {"u1", "u2", "u3"} |->
                        NewAccount("T1", "o1",
                                   CASE u = "u1" -> 3 [] u = "u2" -> 1 [] OTHER -> 2)]}
    /\ pc = "idle"
    /\ expiresIn = 0
    /\ elapsed = 0
    /\ pollCount = 0
    /\ nPending = 0
    /\ lastResp = NoResp
    /\ flowState = "none"
    /\ sessionToken = ""
    /\ createCalls = 0
    /\ nextOlm = Cardinality(DOMAIN Accounts) + 1
    /\ storeAtStart = Store
    /\ credAtLogout = [u \in LogoutUsers |-> 0]
    /\ result = [cmd |-> "none", err |-> "", user |-> ""]
    /\ listener = "none"
    /\ recoverable = {}
    /\ olmRun = NoRun
    /\ file = NoFile
    /\ proc = NoProc
    /\ call = NoCall
    /\ engine \in {"stopped", "running"}
    /\ waited = 0
    /\ client = NoClient

NextLogout ==
    \/ \E status \in {"error", "foreign", "ours"}, confirm \in {"yes", "no", "abort"},
          exitOk \in BOOLEAN : LogoutBegin(status, confirm, exitOk)
    \/ LogoutWait
    \/ \E answer \in LogoutAnswers, nextUserID \in LogoutUsers \cup {""} :
          LogoutFinish(answer, nextUserID)
    \/ EngineStops

SpecLogout == InitLogout /\ [][NextLogout]_vars

\* part_029:790-796: a poll answered with an error envelope whose message
\* says that the code is gone; PollDeviceWebAuth returns the message next to
\* the ErrorResponse
GonePollErrors ==
    {[err |-> e, verified |-> FALSE, token |-> "", message |-> m] :
        e \in {400, 404}, m \in {"Code expired", "Code not found"}}

\* the device authorization flow against a server that reports a code that
\* is gone in either envelope
NextGone ==
    \/ \E expires \in ExpiresShort : LoginStart(expires)
    \/ PollExpired
    \/ \E resp \in PollResponses \cup GonePollErrors, latency \in 0..MaxLatency :
          PollRequest(resp, latency)
    \/ Cancel

SpecGone == Init /\ [][NextGone]_vars

\* ------------------------------------------------- the API client's target
\* Hosts as login stores them in Account.Host: with the protocol and without
\* a trailing slash (part_002:205-211)
Hosts == {"https://h1", "https://h2"}

\* the session token the server at host hands out in the device flow
IssuedBy(host) == IF host = "https://h1" THEN "T1" ELSE "T2"

\* a URL as its parts; cmd/root.go:82, part_030:59-66, part_002:223,
\* part_010:232-241: the host with "/api/v1" appended unless it ends with it
APIBase(host) ==
    IF host # <<>> /\ host[Len(host)] = "/api/v1" THEN host ELSE host \o <<"/api/v1">>

\* part_029:230-236, part_030:62-65: the protocol is put in front of a URL
\* that has none
SetBaseURL(baseURL) ==
    IF baseURL[1] \in Hosts THEN baseURL ELSE <<"https://">> \o baseURL

\* the host a request built on base goes to (part_029:203-210)
RequestHost(base) == IF base[1] = "https://" THEN base[2] ELSE base[1]

\* cmd/root.go:71-85: the client RootCommand builds from the active account
RootClient(s) ==
    IF ActiveAccount(s).err = ""
    THEN [base |-> SetBaseURL(APIBase(<<s.Accounts[s.ActiveUserID].Host>>)),
          token |-> s.Accounts[s.ActiveUserID].SessionToken]
    ELSE [base |-> SetBaseURL(APIBase(<<>>)), token |-> ""]

\* accountMain setting the token of the selected account and leaving the
\* base URL of the former active account
SelectAccountClientKeepsBase(c, account) ==
    [base |-> c.base, token |-> account.SessionToken]

\* part_010:229-245: the client after select account switched
SelectAccountClient(c, account) ==
    [base |-> IF account.Host # "" THEN SetBaseURL(APIBase(<<account.Host>>)) ELSE c.base,
     token |-> account.SessionToken]

\* part_002:221-225: the client after the device flow at hostname returned
LoginClient(c, hostname, token) ==
    [base |-> SetBaseURL(<<hostname>> \o <<"/api/v1">>), token |-> token]

\* an authenticated request as Client.request sends it (part_029:82-141);
\* user: the stored account it is made for, "" when none is stored
ApiRequest(cmd, c, user) ==
    IF c.token = "" THEN NoCall
    ELSE [fn |-> "request", cmd |-> cmd, base |-> c.base, token |-> c.token, user |-> user]

NewAccountAt(host, token) ==
    [Host |-> host, SessionToken |-> token, OrgID |-> "o1", OlmCredentials |-> 1,
     Username |-> ""]

\* an invocation that works with the client RootCommand built: auth status,
\* select org, up, logout's server call
ClientCommand ==
    /\ client' = RootClient(Store)
    /\ call' = ApiRequest("root", client', IF client'.token = "" THEN "" ELSE ActiveUserID)
    /\ UNCHANGED <<cmdVars, file, proc, waitVars>>

\* select account (part_010:185-281): the switch, the client, the validation
ClientSelectAccount(sel) ==
    /\ sel \in DOMAIN Accounts
    /\ ActiveUserID' = sel
    /\ client' = SelectAccountClient(RootClient(Store), Accounts[sel])
    /\ call' = ApiRequest("select account", client', sel)
    /\ UNCHANGED <<Accounts, flowVars, createCalls, nextOlm, storeAtStart, credAtLogout,
                   result, listener, olmVars, file, proc, waitVars>>

\* login (part_002:143-290) once the device flow at hostname returned its
\* token; user: the id GetUser reports, "" when it fails
ClientLogin(hostname, user) ==
    /\ client' = LoginClient(RootClient(Store), hostname, IssuedBy(hostname))
    /\ IF user = "" \/ user \in DOMAIN Accounts
       THEN /\ call' = ApiRequest("login", client', "")
            /\ UNCHANGED storeVars
       ELSE /\ call' = ApiRequest("login", client', user)
            /\ Accounts' = Put(Accounts, user, NewAccountAt(hostname, IssuedBy(hostname)))
            /\ ActiveUserID' = user
    /\ UNCHANGED <<flowVars, createCalls, nextOlm, storeAtStart, credAtLogout,
                   result, listener, olmVars, file, proc, waitVars>>

NextClient ==
    \/ ClientCommand
    \/ \E sel \in Users : ClientSelectAccount(sel)
    \/ \E hostname \in Hosts, user \in Users \cup {""} : ClientLogin(hostname, user)
    \/ \E proceed \in BOOLEAN, nextUserID \in Users \cup {""} : logoutMain(proceed, nextUserID)

SpecClient == Init /\ [][NextClient]_vars

\* what a recover call can come to: 0, the call failed; n > 0, it returned
\* the credential n; -1, it returned no error and a response whose olmId and
\* secret are empty, as Client.request does for an empty body or an envelope
\* without data (part_029:155-157, 192-197)
OlmAnswers == -1..MaxOlm

\* up against a server, or a proxy in front of it, that may answer a recover
\* call with nothing
NextBlank ==
    \/ \E verify \in VerifyAnswers, liveOlm \in OlmAnswers, createOk \in BOOLEAN :
          \/ clientUpMain("ok", verify, FALSE, 0, liveOlm, createOk)
          \/ \E cachedOlm \in OlmAnswers :
                clientUpMain("ok", verify, TRUE, cachedOlm, liveOlm, createOk)
    \/ \E u \in DOMAIN Accounts : ServerChange(u)

SpecBlank == InitUp /\ [][NextBlank]_vars

\* one iteration of the poll loop (part_002:98-140)
PollLoopStep ==
    \/ PollExpired
    \/ PollTimeout
    \/ \E resp \in PollResponses, latency \in 0..MaxLatency : PollRequest(resp, latency)

\* SpecFlow with a poll loop that keeps running: every request returns (the
\* HTTP client gives up after its timeout) and every sleep ends
SpecFlowFair == SpecFlow /\ WF_vars(PollLoopStep)

\* ------------------------------------------------------------- properties
Min(a, b) == IF a < b THEN a ELSE b

HasAccount(u) == u \in DOMAIN Accounts

\* C1: with an active user id set, ActiveAccount() returns the account stored
\* under that id and only when it holds a session token; for a tokenless
\* active account it returns an error.  select org, which starts with
\* ActiveAccount(), works on that account or fails with that error.
ActiveAccountContract ==
    ActiveUserID # "" =>
        LET r == ActiveAccount(Store) IN
        /\ r.err = "" => /\ r.user = ActiveUserID
                         /\ HasAccount(r.user)
                         /\ Accounts[r.user].SessionToken # ""
        /\ (HasAccount(ActiveUserID) /\ Accounts[ActiveUserID].SessionToken = "") => r.err # ""
        /\ (HasAccount(ActiveUserID) /\ Accounts[ActiveUserID].SessionToken # "") => r.err = ""
        /\ result.cmd = "select org" =>
              IF r.err = "" THEN result.user = r.user
              ELSE result.user = "" /\ result.err = r.err

\* select org ran on a store whose active account has no session token
ActiveAccountWitness ==
    /\ result.cmd = "select org"
    /\ ActiveUserID # ""
    /\ HasAccount(ActiveUserID)
    /\ Accounts[ActiveUserID].SessionToken = ""

LogoutKeepsAccount ==
    (result.cmd = "logout" /\ result.err = "" /\ result.user # "") =>
        /\ ActiveUserID = ""
        /\ HasAccount(result.user)
        /\ Accounts[result.user].SessionToken = ""
        /\ Accounts[result.user].OrgID = ""
        /\ Accounts[result.user].OlmCredentials = credAtLogout[result.user]

\* C4: a login that reached Verified with token T for user U ends with
\* accounts[U].session_token = T
LoginUpserts ==
    (pc = "idle" /\ result.cmd = "login" /\ flowState = "Verified" /\ result.user # "") =>
        /\ HasAccount(result.user)
        /\ Accounts[result.user].SessionToken = sessionToken

\* C5: a user who logs in again after a logout holds the tunnel credential
\* the account held at logout, and no CreateOlm call was made
ReloginKeepsCredential ==
    (pc = "idle" /\ result.cmd = "login" /\ result.err = "" /\ result.user # ""
        /\ credAtLogout[result.user] # 0) =>
        /\ HasAccount(result.user)
        /\ Accounts[result.user].OlmCredentials = credAtLogout[result.user]
        /\ createCalls = 0

LoginMutatesOnlyAfterVerified ==
    (result.cmd = "login" /\ Store # storeAtStart) =>
        (flowState = "Verified" /\ result.err # "cancelled")

\* a flow that did not reach Verified ended on a store that holds an account
LoginFailureWitness ==
    /\ pc = "idle"
    /\ result.cmd = "login"
    /\ flowState \in {"Expired", "Failed", "Cancelled"}
    /\ ActiveUserID # ""

\* the flow received {verified:false} responses only
OnlyPending == flowState \in {"Polling", "Expired", "Timeout"} /\ pollCount = nPending

\* C8 as stated: with {verified:false} responses only, the flow ends in
\* Expired no later than expires_in_seconds plus one poll interval
ExpiresWithinOneInterval ==
    OnlyPending =>
        /\ elapsed <= expiresIn + PollInterval
        /\ pc = "idle" => flowState = "Expired"

\* C8 amended: with {verified:false} responses only, the flow ends no later
\* than min(expires_in_seconds, ceiling) plus one poll interval plus the
\* duration of one poll request; it ends in Expired, or with the polling
\* timeout when the ceiling passes before the code expires
ExpiresWithinBound ==
    OnlyPending =>
        /\ elapsed <= Min(expiresIn, MaxPollDuration) + PollInterval + MaxLatency
        /\ pc = "idle" => IF elapsed > expiresIn THEN flowState = "Expired"
                          ELSE flowState = "Timeout" /\ elapsed > MaxPollDuration

\* a flow of {verified:false} responses expired later than one poll interval
\* after expires_in_seconds
ExpiresWitness ==
    /\ OnlyPending
    /\ pc = "idle"
    /\ flowState = "Expired"
    /\ elapsed > expiresIn + PollInterval

\* C9: when the third poll response is {verified:true, token:T} after two
\* {verified:false} responses, the flow ends Verified, returns T and has
\* issued 3 poll requests
ThirdPollVerifies ==
    [][(pc = "polling" /\ nPending = 2 /\ pollCount' # pollCount
           /\ lastResp'.verified /\ lastResp'.token # "") =>
          /\ flowState' = "Verified"
          /\ pc' = "authorized"
          /\ sessionToken' = lastResp'.token
          /\ pollCount' = 3]_vars

\* the flow was verified by the third poll response
ThirdPollWitness ==
    /\ pc = "authorized"
    /\ nPending = 2
    /\ pollCount = 3
    /\ sessionToken = "T1"

\* C10: {verified:true} without a token ends the flow in Failed: no token is
\* returned, login is over (no further poll) and the store is as login found it
VerifiedWithoutTokenFails ==
    (lastResp.verified /\ lastResp.token = "") =>
        /\ pc = "idle"
        /\ flowState = "Failed"
        /\ sessionToken = ""
        /\ result.cmd = "login" /\ result.err # ""
        /\ pollCount = nPending + 1
        /\ Store = storeAtStart

\* a flow got {verified:true} without a token after a {verified:false} response
VerifiedWithoutTokenWitness ==
    /\ lastResp.verified
    /\ lastResp.token = ""
    /\ nPending >= 1

\* C11: a rate-limit (429) error on a poll does not end the flow: it stays in
\* Polling, pauses for longer than the poll interval and polls again
RateLimitIsRetried ==
    [][(pc = "polling" /\ pollCount' # pollCount /\ lastResp'.err = 429) =>
          /\ pc' = "polling"
          /\ flowState' = "Polling"
          /\ elapsed' > elapsed + PollInterval]_vars

\* C12: a poll error other than a rate limit (403, another API status, a
\* transport error) ends the flow in Failed at once: login is over, no token
\* is returned and the failed poll request is the last one of the flow
PollErrorIsTerminal ==
    lastResp.err \in {403, 500, -1} =>
        /\ pc = "idle"
        /\ flowState = "Failed"
        /\ sessionToken = ""
        /\ result.cmd = "login" /\ result.err # ""
        /\ pollCount = nPending + 1

\* a poll request was answered with status 403 after a {verified:false} response
PollErrorWitness ==
    /\ lastResp.err = 403
    /\ nPending >= 1
    /\ flowState = "Failed"

\* C13: the 5-minute ceiling bounds the poll loop whatever expires_in_seconds
\* is: no poll request is issued once the ceiling has passed, and a flow
\* that polls reaches a terminal state
CeilingBoundsPolling ==
    /\ [][(pc = "polling" /\ pollCount' # pollCount) => elapsed <= MaxPollDuration]_vars
    /\ (pc = "polling") ~> (pc # "polling")

\* a code that outlives the ceiling got {verified:false} responses until the
\* ceiling ended the flow
CeilingWitness ==
    /\ expiresIn > MaxPollDuration
    /\ pc = "idle"
    /\ flowState = "Timeout"
    /\ pollCount = nPending
    /\ pollCount > 0

\* C14: the press-Enter listener neither blocks nor decides the flow.  In
\* every state of the listener the poll loop can take its next step, with
\* any poll response; a step of the listener changes nothing of the flow,
\* of the outcome of login or of the store.
ListenerNeverDecides ==
    /\ [](pc = "polling" =>
            /\ ENABLED PollLoopStep
            /\ (~(elapsed > expiresIn) /\ ~(elapsed > MaxPollDuration)) =>
                   \A resp \in PollResponses : ENABLED PollRequest(resp, 0))
    /\ [][(pc \in {"polling", "authorized"} /\ listener' # listener) =>
            UNCHANGED <<flowVars, storeVars, result>>]_vars

\* the flow was verified after a {verified:false} response although the
\* listener's read of stdin had failed
ListenerWitness ==
    /\ listener = "readFailed"
    /\ pc = "authorized"
    /\ flowState = "Verified"
    /\ sessionToken # ""
    /\ nPending >= 1

\* C15: when EnsureOlmCredentials is called twice in a row on an account
\* whose credential verifies, the second call makes one server call, the
\* lookup by id, and no recover or create call; both calls report
\* changed = false and the account keeps its credential
EnsureIsIdempotent ==
    (olmRun.priorVerified /\ RunVerified(olmRun)) =>
        /\ olmRun.calls = <<Call("GetUserOlm", 0)>>
        /\ ~olmRun.priorChanged
        /\ ~olmRun.changed
        /\ olmRun.err = ""
        /\ olmRun.after = olmRun.before
        /\ HasAccount(olmRun.user)
        /\ Accounts[olmRun.user].OlmCredentials = olmRun.before

\* up ran twice on a credential the server knows
EnsureTwiceWitness ==
    /\ result.cmd = "up"
    /\ result.err = ""
    /\ olmRun.priorVerified
    /\ RunVerified(olmRun)

\* the call named name was made and failed; was made and succeeded
CallFailed(run, name) == \E i \in DOMAIN run.calls : run.calls[i] = Call(name, 0)
CallSucceeded(run, name) ==
    \E i \in DOMAIN run.calls : run.calls[i].call = name /\ run.calls[i].answer # 0

\* place of a call in the fallback chain
Rank(name) ==
    CASE name = "GetUserOlm" -> 0
      [] name = "RecoverCached" -> 1
      [] name = "RecoverLive" -> 2
      [] name = "CreateOlm" -> 3

\* the calls of a run follow the chain: lookup, recovery with the cached
\* fingerprint when the cache exists, recovery with the live fingerprint
\* when that did not succeed, create when no recovery succeeded; each call
\* is made at most once and none after the credential verified
FollowsChain(run) ==
    /\ \A i, j \in DOMAIN run.calls :
          i < j => Rank(run.calls[i].call) < Rank(run.calls[j].call)
    /\ RunVerified(run) => Len(run.calls) = 1
    /\ (Called(run, "RecoverCached") \/ Called(run, "RecoverLive") \/ Called(run, "CreateOlm")) =>
          /\ Called(run, "RecoverCached") <=> run.cache
          /\ Called(run, "RecoverLive") <=> ~CallSucceeded(run, "RecoverCached")
          /\ Called(run, "CreateOlm") <=>
                (~CallSucceeded(run, "RecoverCached") /\ CallFailed(run, "RecoverLive"))
    /\ (CallSucceeded(run, "RecoverCached") \/ CallSucceeded(run, "RecoverLive")) =>
          run.changed /\ run.err = ""

\* C16 as stated: the calls follow the chain, and when both recoveries fail
\* the create call is made and changed = true is reported
FallbackEndsChanged ==
    /\ FollowsChain(olmRun)
    /\ Called(olmRun, "CreateOlm") => olmRun.changed

\* C16 amended: the calls follow the chain; when both recoveries fail the
\* create call is made once, and changed = true is reported when it
\* succeeds; when it fails, the error is returned with changed = false and
\* the account is left without a credential
FallbackOrder ==
    /\ FollowsChain(olmRun)
    /\ CallSucceeded(olmRun, "CreateOlm") =>
          olmRun.changed /\ olmRun.err = "" /\ olmRun.after # 0
    /\ CallFailed(olmRun, "CreateOlm") =>
          ~olmRun.changed /\ olmRun.err # "" /\ olmRun.after = 0

\* the cache existed, both recoveries failed and so did the create call
FallbackWitness ==
    /\ result.cmd = "up"
    /\ olmRun.cache
    /\ CallFailed(olmRun, "RecoverCached")
    /\ CallFailed(olmRun, "RecoverLive")
    /\ CallFailed(olmRun, "CreateOlm")

\* C17: when the lookup of the existing credential fails with anything but a
\* "not found" API error (a transport error, a 500, 401 or 429), the failure
\* is returned, no recover or create call is made and the account keeps its
\* credential
OnlyNotFoundIsStale ==
    (olmRun.before # 0 /\ olmRun.calls # <<>> /\ olmRun.calls[1].answer \notin {0, 404}) =>
        /\ olmRun.calls = <<Call("GetUserOlm", olmRun.calls[1].answer)>>
        /\ olmRun.err # ""
        /\ ~olmRun.changed
        /\ olmRun.after = olmRun.before
        /\ HasAccount(olmRun.user)
        /\ Accounts[olmRun.user].OlmCredentials = olmRun.before

LoginRecoversCredential ==
    [][(pc = "authorized" /\ result'.cmd = "login" /\ result'.err = ""
           /\ result'.user \in recoverable) =>
          createCalls' = 0]_vars

\* C20: resolving the organization of a user with exactly one visible
\* organization returns that organization's id and shows no selection form;
\* with no organization it returns an error and no organization id
SingleOrgAutoSelected ==
    (result.cmd = "select org" /\ result.user # "" /\ result.flag = "" /\ result.listed) =>
        /\ Len(result.orgs) = 1 =>
              result.err = "" /\ result.org = result.orgs[1] /\ ~result.asked
        /\ Len(result.orgs) = 0 =>
              result.err # "" /\ result.org = "" /\ ~result.asked

\* select org resolved the organization of a user who has one organization
SingleOrgWitness ==
    /\ result.cmd = "select org"
    /\ result.user # ""
    /\ result.flag = ""
    /\ result.orgs = <<"o1">>
    /\ result.org = "o1"

\* C21: select org accepts an organization id given with --org only if the
\* server lists it among the active user's organizations; otherwise the
\* command returns an error, selects nothing and leaves the store as it was
ExplicitOrgValidated ==
    (result.cmd = "select org" /\ result.user # "" /\ result.flag # "") =>
        \/ /\ result.listed
           /\ result.flag \in Range(result.orgs)
           /\ result.err = ""
           /\ result.org = result.flag
        \/ /\ ~(result.listed /\ result.flag \in Range(result.orgs))
           /\ result.err # ""
           /\ result.org = ""
           /\ Store = storeAtStart

\* select org was given an organization the server does not list
ExplicitOrgWitness ==
    /\ result.cmd = "select org"
    /\ result.user # ""
    /\ result.flag = "o2"
    /\ result.listed
    /\ result.orgs = <<"o1">>
    /\ result.err = "organization not found"

\* C22: when the access check answers allowed = false, the outcome is a typed
\* "blocked" outcome that carries the remediation URL, not one of the error
\* values an API error or a transport failure produces
BlockedIsTypedOutcome ==
    (call.fn = "EnsureOrgAccess" /\ call.getOrg = 0 /\ call.access = 0 /\ ~call.allowed) =>
        /\ call.out.type \notin {"nil", "*errors.errorString", "*fmt.wrapError",
                                 "*api.ErrorResponse"}
        /\ "url" \in DOMAIN call.out
        /\ call.out.url = OrgURL(call.org)

\* the file kinds that hold no account document
Unparseable == {"empty", "partial", "garbage", "misshapen"}

\* C23: loading the account store where no file exists yields the empty
\* store (no active user id, no accounts) and no error
FirstRunLoadsEmpty ==
    /\ (call.fn = "LoadAccountStore" /\ call.saw.kind = "absent") =>
          call.out = [err |-> "", store |-> EmptyStore]
    /\ (proc.phase # "none" /\ proc.saw.kind = "absent") =>
          proc.phase # "aborted" /\ proc.err = ""

\* the store was loaded where no file exists
FirstRunWitness ==
    /\ call.fn = "LoadAccountStore"
    /\ call.saw = NoFile
    /\ call.out.store = EmptyStore
    /\ call.out.err = ""

\* C24: loading a file that is present and cannot be parsed returns an error,
\* the invocation aborts, and the file is left as it was
CorruptStoreIsSurfaced ==
    /\ (call.fn = "LoadAccountStore" /\ call.saw.kind \in Unparseable) =>
          call.out.err # "" /\ file = call.saw
    /\ (proc.phase # "none" /\ proc.saw.kind \in Unparseable) =>
          proc.phase = "aborted" /\ proc.err # "" /\ file = proc.saw

\* an invocation found the part of a document a crashed Save had left
CorruptStoreWitness ==
    /\ proc.phase = "aborted"
    /\ proc.saw.kind = "partial"
    /\ file.kind = "partial"

\* C25: a store that was saved and is loaded again has the same active user
\* id and the same accounts, key for key and field for field
StoreRoundTrip ==
    (call.fn = "LoadAccountStore" /\ call.proc.phase = "saved") =>
        call.out = [err |-> "", store |-> call.proc.store]

\* C26: a process that loads the store while a Save is under way, or after
\* a Save that crashed, sees the whole previous document or the whole new one
SaveIsAtomic ==
    (call.fn = "LoadAccountStore" /\ call.proc.phase \in {"truncated", "crashed", "saved"}) =>
        /\ call.saw \in {call.proc.saw, SavedFile(call.proc.store)}
        /\ call.out.err = ""

\* C27: for an envelope with success = false or error = true an API call
\* returns an ErrorResponse with the status of the envelope, or the HTTP
\* status when that is 0, and with the message of the envelope, or when that
\* is empty the default phrase of the status
ErrorEnvelopeIsTyped ==
    (call.fn = "ApiCall" /\ (~call.envelope.success \/ call.envelope.error)) =>
        LET status == IF call.envelope.status = 0 THEN call.http ELSE call.envelope.status
            phrase == CASE status = 400 -> "Bad request"
                        [] status \in {401, 403} -> "Unauthorized"
                        [] status = 404 -> "Not found"
                        [] status = 429 -> "Rate limit exceeded"
                        [] status = 500 -> "Internal server error"
                        [] OTHER -> "An error occurred"
        IN  /\ call.out.type = "*api.ErrorResponse"
            /\ call.out.status = status
            /\ call.out.message = IF call.envelope.message = "" THEN phrase
                                  ELSE call.envelope.message

\* C28: when the active user id names no account, a command that needs the
\* active account (logout, select org, up, status) fails with an error and
\* leaves the store as it is
DanglingActiveFailsLoudly ==
    [][(ActiveUserID # "" /\ ActiveUserID \notin DOMAIN Accounts /\ recoverable' = recoverable) =>
          /\ result'.cmd \in {"logout", "select org", "up", "status"}
          /\ result'.err # ""
          /\ UNCHANGED storeVars]_vars

\* C29: the server-side logout is best-effort: whether POST /auth/logout is
\* accepted, answered with an API error, or fails in transport, the command
\* succeeds and saves the same store: the active account removed and one of
\* the remaining accounts, if any, made active.
ServerLogoutIsBestEffort ==
    (result.cmd = "logout" /\ result.server \in LogoutAnswers) =>
        /\ result.err = ""
        /\ result.user = storeAtStart.ActiveUserID
        /\ \E n \in anyKey(Remove(storeAtStart.Accounts, storeAtStart.ActiveUserID)) :
              Store = LogoutStore(storeAtStart, n)

\* the server could not be reached and the account is gone all the same
ServerLogoutWitness ==
    /\ result.cmd = "logout"
    /\ result.server = "transport error"
    /\ result.err = ""
    /\ result.user = "u1"
    /\ "u1" \notin DOMAIN Accounts

\* C30: logout never waits for the tunnel client beyond the grace period of
\* 10 s: the wait loop sleeps LogoutMaxWait at most and cannot go on at that
\* point, and a logout that gave up waiting printed the warning after exactly
\* LogoutMaxWait and still completed the local logout.
LogoutWaitIsBounded ==
    /\ pc = "stopping" => waited <= LogoutMaxWait
    /\ (pc = "stopping" /\ waited >= LogoutMaxWait) =>
          ~ENABLED LogoutWait /\ ENABLED (\E a \in LogoutAnswers, n \in LogoutUsers \cup {""} :
                                            LogoutFinish(a, n))
    /\ (result.cmd = "logout" /\ result.warned) =>
          /\ result.waited = LogoutMaxWait
          /\ result.err = ""
          /\ result.user \notin DOMAIN Accounts

\* the client never stopped: logout warned after 10 s and logged u1 out
LogoutWaitWitness ==
    /\ result.cmd = "logout"
    /\ result.warned
    /\ result.waited = LogoutMaxWait
    /\ engine = "running"
    /\ result.user = "u1"
    /\ "u1" \notin DOMAIN Accounts

\* C31: when the active account is logged out while two or more other
\* accounts remain, the next active user is determined by the store alone:
\* no two ways of finishing the logout from one state differ in the user
\* they make active.
NextActiveIsDetermined ==
    (/\ pc \in {"stopping", "leaving"}
     /\ ActiveUserID # ""
     /\ Cardinality(DOMAIN Accounts \ {ActiveUserID}) >= 2) =>
        \A n1, n2 \in LogoutUsers :
            (ENABLED LogoutFinish("ok", n1) /\ ENABLED LogoutFinish("ok", n2)) => n1 = n2

\* C32: after select org succeeds with organization X the saved store holds
\* org_id = X for the active account, so that ActiveAccount() sees X in a
\* later invocation.
SelectedOrgIsSaved ==
    (result.cmd = "select org" /\ result.err = "") =>
        /\ ActiveAccount(Store).err = ""
        /\ Accounts[ActiveUserID].OrgID = result.org

\* C33: a poll response whose message says the code is gone ("Code expired"
\* or "Code not found") ends the flow in Expired with no further poll,
\* whether it comes in a successful envelope or in an error envelope.
CodeGoneEndsExpired ==
    lastResp.message \in {"Code expired", "Code not found"} =>
        pc = "idle" /\ flowState = "Expired"

\* C34: select account commits the switch before it contacts the server: a
\* failing health check or a failing user fetch afterwards neither reverts
\* the saved active_user_id nor makes the command fail.
SelectAccountCommitsFirst ==
    (result.cmd = "select account" /\ result.validate \in {"down", "nouser"}) =>
        /\ result.err = ""
        /\ ActiveUserID = result.user
        /\ storeAtStart.ActiveUserID = result.user

\* the switch from u1 to u2 was kept although the server was down
SelectAccountDownWitness ==
    /\ result.cmd = "select account"
    /\ result.validate = "down"
    /\ result.err = ""
    /\ ActiveUserID = result.user
    /\ \E u \in DOMAIN Accounts : u # result.user

\* C35: in up with stored credentials the tunnel credential is verified,
\* recovered or created only after the health check succeeded: when the
\* health check fails, up returns an error having made no lookup, recover or
\* create call, and changes neither the account's credential nor the store.
UpChecksHealthFirst ==
    [][(result'.cmd = "up" /\ result'.pre = "down" /\ recoverable' = recoverable) =>
          /\ result'.err # ""
          /\ UNCHANGED <<storeVars, nextOlm, olmRun>>]_vars

\* up gave up on the health check while the account held a credential
UpServerDownWitness ==
    /\ result.cmd = "up"
    /\ result.pre = "down"
    /\ result.err = "the server appears to be down"
    /\ ActiveAccount(Store).err = ""
    /\ Accounts[ActiveUserID].OlmCredentials # 0

\* C36: after any sequence of login, logout, Deactivate and select account
\* the active account, if any, has a non-empty session token: neither select
\* account nor the choice logout makes among the remaining accounts makes a
\* deactivated account active.
ActiveAccountHasToken ==
    (ActiveUserID # "" /\ HasAccount(ActiveUserID)) =>
        Accounts[ActiveUserID].SessionToken # ""

\* C37: a session token is only ever sent to the host of the account it
\* belongs to: at every authenticated API call made after startup, login or
\* select account the request goes to the host that issued the token, and
\* when the call is made for a stored account the client's base URL is
\* derived from that account's host and its token is that account's.
TokenGoesToItsHost ==
    call.fn = "request" =>
        /\ call.token # ""
        /\ IssuedBy(RequestHost(call.base)) = call.token
        /\ (call.user # "" /\ HasAccount(call.user)) =>
              /\ call.base = <<Accounts[call.user].Host, "/api/v1">>
              /\ call.token = Accounts[call.user].SessionToken

\* select account made an account active and called the server while an
\* account at the other host is stored
TokenHostWitness ==
    /\ call.fn = "request"
    /\ call.cmd = "select account"
    /\ HasAccount(call.user)
    /\ ActiveUserID = call.user
    /\ \E u \in DOMAIN Accounts : Accounts[u].Host # Accounts[call.user].Host

\* C38: an API call never reports success for a failed HTTP exchange: when
\* the HTTP status is 4xx or 5xx, request() returns an error, also when the
\* body is empty or the envelope lacks the success and error fields.
FailedExchangeIsError ==
    (call.fn = "Client.request" /\ call.http >= 400) => call.out.type # "nil"

\* C39: whenever EnsureOlmCredentials returns without error the account
\* holds a tunnel credential whose id and secret are non-empty and are the
\* pair returned by the server call that succeeded, or the credential held
\* before the call when that one verified.
CredentialIsServerPair ==
    (olmRun.user # "" /\ olmRun.err = "") =>
        /\ olmRun.after > 0
        /\ HasAccount(olmRun.user) /\ Accounts[olmRun.user].OlmCredentials = olmRun.after
        /\ IF olmRun.changed
           THEN LET last == olmRun.calls[Len(olmRun.calls)] IN
                /\ last.call \in {"RecoverCached", "RecoverLive", "CreateOlm"}
                /\ last.answer = olmRun.after
           ELSE olmRun.after = olmRun.before /\ RunVerified(olmRun)

\* C40: logging out, or deactivating, one account leaves every other account
\* in the store unchanged: each is still present with the same session
\* token, org id, tunnel credential and user info.
LogoutLeavesOthers ==
    [][(result'.cmd \in {"logout", "deactivate"}) =>
          LET target == IF result'.cmd = "logout" THEN ActiveUserID ELSE result'.user IN
          \A u \in DOMAIN Accounts \ {target} :
              u \in DOMAIN Accounts' /\ Accounts'[u] = Accounts[u]]_vars

\* u1 was logged out while u2 is stored with its session
LogoutOthersWitness ==
    /\ result.cmd = "logout"
    /\ result.err = ""
    /\ result.user = "u1"
    /\ ~HasAccount("u1")
    /\ HasAccount("u2")
    /\ Accounts["u2"].SessionToken # ""
    /\ Accounts["u2"].OlmCredentials # 0

====
